---------------------------- MODULE Spec2Model ----------------------------
(***************************************************************************)
(* A model of program.js of PhiloGL (src/unnamed/part_000):                *)
(*   - recursiveLoad, the `#include ""` / HAS_EXTENSION preprocessor,      *)
(*   - getUniformSetter and the uniform loop of the Program constructor,   *)
(*   - Program.setUniform and Program.setUniforms, which invoke the        *)
(*     setters built at construction.                                      *)
(*                                                                         *)
(* Three specifications share the variables:                               *)
(*   Spec        the Program constructor over the driver's active uniforms *)
(*   SetterSpec  a Program with one or two active uniforms and the calls   *)
(*               of setUniform and setUniforms on it                       *)
(*   LoadSpec    one recursiveLoad call chain                              *)
(***************************************************************************)
EXTENDS Integers, Sequences, FiniteSets, TLC

VARIABLES
    \* ---- recursiveLoad ----
    fs,             \* the files the source fetcher can serve: url -> text
    exts,           \* the extensions gl.getExtension reports available
    rootSource,     \* the source the outermost recursiveLoad was called with
    rootBase,       \* the base the outermost recursiveLoad was called with
    stack,          \* the recursiveLoad calls awaiting one another, outermost first
    ret,            \* the settlement of the call that completed last
    fetched,        \* history: the urls requested from XHR, in order
    failedFetch,    \* history: the urls whose fetch failed
    \* ---- Program ----
    activeUniforms, \* what gl.getActiveUniform reports, by index
    program,        \* the Program object: status, error, this.uniforms
    scratch,        \* the typed arrays captured by the setters: key -> buffer
    lastInv,        \* history: the last invocation of a setter, this.uniforms[name](value)
    lastCalls,      \* history: the driver calls that one invocation made
    invocations,    \* history: how many setter invocations preceded, capped
    written,        \* history: key -> the leading elements of its scratch array
                    \*          the latest invocation of that setter wrote
    driverCalls     \* history: the driver calls of the last setUniform or
                    \*          setUniforms call, all of them, in order

vars == <<fs, exts, rootSource, rootBase, stack, ret, fetched,
          failedFetch, activeUniforms, program, scratch, lastInv, lastCalls,
          invocations, written, driverCalls>>

loadVars == <<fs, exts, rootSource, rootBase, stack, ret, fetched,
              failedFetch>>

progVars == <<activeUniforms, program, scratch, lastInv, lastCalls, invocations,
              written, driverCalls>>

(***************************************************************************)
(* Bounds of the model.                                                    *)
(***************************************************************************)
\* The number of active uniforms the driver reports.
MaxUniforms == 2

(***************************************************************************)
(* Shader text.  A text is a sequence of tokens:                           *)
(*   txt  an opaque chunk of text                                          *)
(*   inc  an `#include "path"` directive; a is the path split at '/'       *)
(*   ext  a `HAS_EXTENSION(name)` invocation; ws says whether a whitespace *)
(*        character precedes it                                            *)
(***************************************************************************)
Txt(s) == [k |-> "txt", a |-> <<s>>, ws |-> FALSE]
Inc(p) == [k |-> "inc", a |-> p, ws |-> FALSE]
Ext(n, w) == [k |-> "ext", a |-> <<n>>, ws |-> w]

\* JavaScript values that travel as `source`, `response` and `replacement`.
TextValue(s) == [t |-> "text", s |-> s, ok |-> TRUE]
Undefined == [t |-> "undefined", s |-> <<>>, ok |-> TRUE]
PromiseValue(s, ok) == [t |-> "promise", s |-> s, ok |-> ok]

\* An error: its kind and, for `Load including file ${url} failed`, the url.
Error(kind, url) == [kind |-> kind, url |-> url]
NoError == Error("none", <<>>)

\* source.match(/#include "(.*?)"/): is there a directive, and the first one.
HasInclude(s) == \E i \in 1..Len(s) : s[i].k = "inc"

FirstInclude(s) ==
    CHOOSE i \in 1..Len(s) : s[i].k = "inc" /\ \A j \in 1..(i-1) : s[j].k # "inc"

\* getpath: path.substr(0, path.lastIndexOf('/') + 1).  A path is held split at
\* '/', so "./" is <<".", "">> and "lib/b.glsl" is <<"lib", "b.glsl">>; the
\* directory keeps every segment but the last.  The `last === '/'` test compares
\* a number with a string and never holds.
getpath(path) == SubSeq(path, 1, Len(path) - 1)

\* getpath(base) + match[1]
IncludeUrl(base, s) == getpath(base) \o s[FirstInclude(s)].a

\* String(value), as String.prototype.replace applies it to its second argument.
StringOf(v) ==
    IF v.t = "text" THEN v.s
    ELSE IF v.t = "undefined" THEN <<Txt("undefined")>>
    ELSE <<Txt("[object Promise]")>>

\* source.replace(/#include ".*?"/, replacement): the first directive only.
ReplaceInclude(s, r) ==
    LET i == FirstInclude(s)
    IN  SubSeq(s, 1, i - 1) \o StringOf(r) \o SubSeq(s, i + 1, Len(s))

\* source.replace(/\sHAS_EXTENSION\s*\(\s*([A-Za-z_\-0-9]+)\s*\)/g, ...): only an
\* invocation preceded by a whitespace character matches.
RewriteExtensions(s, available) ==
    [i \in 1..Len(s) |->
        IF s[i].k = "ext" /\ s[i].ws
        THEN Txt(IF s[i].a[1] \in available THEN " 1 " ELSE " 0 ")
        ELSE s[i]]

\* new XHR({url: url, noCache: true}).sendAsync(): the source fetcher is
\* asynchronous, so the call returns a promise at once; the promise settles
\* later, to the text of the file or to a failure when the url cannot be
\* fetched.
sendAsync(url) ==
    IF url \in DOMAIN fs THEN PromiseValue(fs[url], TRUE)
                          ELSE PromiseValue(<<>>, FALSE)

(***************************************************************************)
(* The calls of recursiveLoad.  A frame is one call: its parameters, the   *)
(* url it awaits, and where it stands (enter: about to run its body;       *)
(* await: suspended at `await recursiveLoad(gl, url, response)`).          *)
(***************************************************************************)
Frame(base, source, duplist) ==
    [base |-> base, source |-> source, duplist |-> duplist, url |-> <<>>,
     pc |-> "enter"]

Top == stack[Len(stack)]
Pop == SubSeq(stack, 1, Len(stack) - 1)
NoRet == [state |-> "none", value |-> Undefined, err |-> NoError]
Resolved(v) == [state |-> "resolved", value |-> v, err |-> NoError]
Rejected(e) == [state |-> "rejected", value |-> Undefined, err |-> e]

\* The call returns without reaching the include branch: a source that is not a
\* string has no match method (TypeError), and a source without a directive
\* falls off the end of the function, which returns undefined.
recursiveLoadReturn ==
    /\ stack # <<>>
    /\ Top.pc = "enter"
    /\ Top.source.t # "text" \/ ~HasInclude(Top.source.s)
    /\ ret' = IF Top.source.t # "text"
              THEN Rejected(Error("TypeError", <<>>))
              ELSE Resolved(Undefined)
    /\ stack' = Pop
    /\ UNCHANGED <<fs, exts, rootSource, rootBase, fetched,
                   failedFetch>>
    /\ UNCHANGED progVars

\* CaughtError with the base of the call in place of the url it requested.
CaughtErrorNamesBase(frame) == Error("IncludeLoad", frame.base)

\* throw (new Error(`Load including file ${url} failed`)): what the catch
\* clause of a call throws, whatever it caught.
CaughtError(frame) == Error("IncludeLoad", frame.url)

\* The include branch up to its await.  When duplist holds the url, the call of
\* the undefined callbackError throws a ReferenceError, which the catch clause
\* rethrows.  Otherwise the url is requested, recorded in duplist, and
\* recursiveLoad(gl, url, response) is called with the promise sendAsync
\* returned, not with what it settles to; that call gets a duplist of its own.
recursiveLoadFetch ==
    /\ stack # <<>>
    /\ Top.pc = "enter"
    /\ Top.source.t = "text" /\ HasInclude(Top.source.s)
    /\ LET url == IncludeUrl(Top.base, Top.source.s)
       IN  IF url \in Top.duplist
           THEN /\ ret' = Rejected(CaughtError([Top EXCEPT !.url = url]))
                /\ stack' = Pop
                /\ UNCHANGED <<fetched, failedFetch>>
           ELSE /\ fetched' = Append(fetched, url)
                /\ failedFetch' = IF url \in DOMAIN fs THEN failedFetch
                                  ELSE failedFetch \cup {url}
                /\ stack' = Append(
                       [stack EXCEPT ![Len(stack)] =
                           [@ EXCEPT !.url = url, !.pc = "await",
                                     !.duplist = @ \cup {url}]],
                       Frame(url, sendAsync(url), {}))
                /\ ret' = NoRet
    /\ UNCHANGED <<fs, exts, rootSource, rootBase>>
    /\ UNCHANGED progVars

\* The text a call continues with once the awaited call resolved.
Substituted(source, replacement) ==
    RewriteExtensions(ReplaceInclude(source, replacement), exts)

\* The awaited call settled.  Rejected: the catch clause rethrows with this
\* call's url.  Resolved: delete duplist[url], substitute the replacement,
\* rewrite the macros and tail-call recursiveLoad(gl, url, source, duplist).
recursiveLoadAwait ==
    /\ stack # <<>>
    /\ Top.pc = "await"
    /\ ret.state # "none"
    /\ IF ret.state = "rejected"
       THEN /\ ret' = Rejected(CaughtError(Top))
            /\ stack' = Pop
       ELSE /\ stack' = [stack EXCEPT ![Len(stack)] =
                            Frame(Top.url,
                                  TextValue(Substituted(Top.source.s,
                                                        ret.value)),
                                  Top.duplist \ {Top.url})]
            /\ ret' = NoRet
    /\ UNCHANGED <<fs, exts, rootSource, rootBase, fetched, failedFetch>>
    /\ UNCHANGED progVars

LoadDone == stack = <<>> /\ ret.state # "none"

(***************************************************************************)
(* Typed arrays and uniform type tags.                                     *)
(***************************************************************************)
\* The modulus of a Uint16Array element.
Uint16Modulus == 65536
\* Up to this magnitude every integer is a Float32Array element as it is.
Float32Exact == 16777216

\* ToUint16 of an integer: the element a Uint16Array stores.
ToUint16(x) == x % Uint16Modulus

\* The spacing of the float32 values around a magnitude a >= Float32Exact.
RECURSIVE Float32Spacing(_, _)
Float32Spacing(a, g) ==
    IF a < Float32Exact * g THEN g ELSE Float32Spacing(a, 2 * g)

\* The element a Float32Array stores for an integer: round to nearest, ties to
\* even, at the spacing of its magnitude.
ToFloat32(x) ==
    LET a == IF x < 0 THEN -x ELSE x
        g == Float32Spacing(a, 1)
        q == a \div g
        r == a % g
        up == 2 * r > g \/ (2 * r = g /\ q % 2 = 1)
        m == (IF up THEN q + 1 ELSE q) * g
    IN  IF x < 0 THEN -m ELSE m

\* The elements a typed array of the given constructor holds for a source.
Elements(ctor, data) ==
    [j \in 1..Len(data) |->
        IF ctor = "Uint16Array" THEN ToUint16(data[j]) ELSE ToFloat32(data[j])]

ScalarFloat == {"FLOAT"}
ScalarInt == {"INT", "BOOL", "SAMPLER_2D", "SAMPLER_CUBE"}
FloatVec == {"FLOAT_VEC2", "FLOAT_VEC3", "FLOAT_VEC4"}
IntVec == {"INT_VEC2", "INT_VEC3", "INT_VEC4",
           "BOOL_VEC2", "BOOL_VEC3", "BOOL_VEC4"}
FloatMat == {"FLOAT_MAT2", "FLOAT_MAT3", "FLOAT_MAT4"}
SupportedTypes == ScalarFloat \cup ScalarInt \cup FloatVec \cup IntVec \cup FloatMat
\* A type tag of the driver that getUniformSetter has no case for.
UnsupportedTypes == {"UNSIGNED_INT"}

\* The 2, 3 or 4 of a vector or matrix type tag.
Dim(type) ==
    IF type \in {"FLOAT_VEC2", "INT_VEC2", "BOOL_VEC2", "FLOAT_MAT2"} THEN 2
    ELSE IF type \in {"FLOAT_VEC3", "INT_VEC3", "BOOL_VEC3", "FLOAT_MAT3"} THEN 3
    ELSE IF type \in {"FLOAT_VEC4", "INT_VEC4", "BOOL_VEC4", "FLOAT_MAT4"} THEN 4
    ELSE 1

\* The number of components of one value of the type.
Components(type) == IF type \in FloatMat THEN Dim(type) * Dim(type) ELSE Dim(type)

\* The local `typedArray`: undefined, a constructor, or an instance of length n.
NoTypedArray == [ctor |-> "none", inst |-> FALSE, n |-> 0]
TypedArrayClass(ctor) == [ctor |-> ctor, inst |-> FALSE, n |-> 0]
TypedArrayInstance(ctor, n) == [ctor |-> ctor, inst |-> TRUE, n |-> n]

Digit(n) == <<"0", "1", "2", "3", "4", "5", "6", "7", "8", "9">>[n + 1]

(***************************************************************************)
(* getUniformSetter                                                        *)
(***************************************************************************)
\* The first switch, taken when info.size > 1 && isArray.
ArraySwitch(type) ==
    IF type \in ScalarFloat
    THEN [thrown |-> "none", glFunction |-> "uniform1fv",
          typedArray |-> TypedArrayClass("Float32Array"), vector |-> FALSE]
    ELSE IF type \in ScalarInt
    THEN [thrown |-> "none", glFunction |-> "uniform1iv",
          typedArray |-> TypedArrayClass("Uint16Array"), vector |-> FALSE]
    ELSE [thrown |-> "UnknownGLSLType", glFunction |-> "undefined",
          typedArray |-> NoTypedArray, vector |-> TRUE]

\* The locals after the first switch, or as declared when it is not taken.
AfterArraySwitch(info, isArray) ==
    IF info.size > 1 /\ isArray
    THEN ArraySwitch(info.type)
    ELSE [thrown |-> "none", glFunction |-> "undefined",
          typedArray |-> NoTypedArray, vector |-> TRUE]

\* The second switch, taken when `vector` is still true: glFunction, typedArray
\* and matrix for the type; its default case leaves them as they were.
VectorSwitch(type, isArray) ==
    IF type \in ScalarFloat
    THEN [glFunction |-> "uniform1f", typedArray |-> NoTypedArray,
          matrix |-> FALSE]
    ELSE IF type \in FloatVec
    THEN [glFunction |-> "uniform" \o Digit(Dim(type)) \o "fv",
          typedArray |-> IF isArray THEN TypedArrayClass("Float32Array")
                         ELSE TypedArrayInstance("Float32Array", Dim(type)),
          matrix |-> FALSE]
    ELSE IF type \in ScalarInt
    THEN [glFunction |-> "uniform1i", typedArray |-> NoTypedArray,
          matrix |-> FALSE]
    ELSE IF type \in IntVec
    THEN [glFunction |-> "uniform" \o Digit(Dim(type)) \o "iv",
          typedArray |-> IF isArray THEN TypedArrayClass("Uint16Array")
                         ELSE TypedArrayInstance("Uint16Array", Dim(type)),
          matrix |-> FALSE]
    ELSE IF type \in FloatMat
    THEN [glFunction |-> "uniformMatrix" \o Digit(Dim(type)) \o "fv",
          typedArray |-> NoTypedArray, matrix |-> TRUE]
    ELSE [glFunction |-> "undefined", typedArray |-> NoTypedArray,
          matrix |-> FALSE]

\* Which of the four closures the function returns.
SetterKind(isArray, typedArray, matrix) ==
    IF isArray /\ typedArray.ctor # "none" THEN "array"
    ELSE IF matrix THEN "matrix"
    ELSE IF typedArray.ctor # "none" THEN "typed"
    ELSE "primitive"

\* getUniformSetter(gl, glProgram, info, isArray) with loc the location
\* gl.getUniformLocation gave for info.name: the setter, or what it throws.
\* glFunction.bind(gl) on an undefined glFunction is a TypeError.
getUniformSetter(info, isArray, loc) ==
    LET a == AfterArraySwitch(info, isArray)
        v == IF a.vector THEN VectorSwitch(info.type, isArray)
             ELSE [glFunction |-> a.glFunction, typedArray |-> a.typedArray,
                   matrix |-> FALSE]
        thrown == IF a.thrown # "none" THEN a.thrown
                  ELSE IF v.glFunction = "undefined" THEN "TypeError"
                  ELSE "none"
    IN  [thrown |-> thrown, loc |-> loc, type |-> info.type, isArray |-> isArray,
         glFunction |-> v.glFunction, typedArray |-> v.typedArray,
         matrix |-> v.matrix,
         kind |-> SetterKind(isArray, v.typedArray, v.matrix)]

(***************************************************************************)
(* The Program constructor: the loop that creates the uniform setters.     *)
(* createProgram and the attribute loop precede it and touch none of the   *)
(* state below; the model starts where they have succeeded.                *)
(***************************************************************************)
\* A uniform name is held as its sequence of characters.
\* UniformKey with the brackets left on the name.
UniformKeyUnstripped(name) == name

\* name[name.length - 1] === ']' ? name.substr(0, name.length - 3) : name
UniformKey(name) ==
    IF Len(name) > 0 /\ name[Len(name)] = "]"
    THEN SubSeq(name, 1, Len(name) - 3)
    ELSE name

\* The for loop from index i on, with the local `uniforms` built so far: the
\* mapping when it completes, or the error of the call that threw.
RECURSIVE CreateUniformSetters(_, _, _)
CreateUniformSetters(infos, i, uniforms) ==
    IF i > Len(infos)
    THEN [thrown |-> "none", failedAt |-> 0, uniforms |-> uniforms]
    ELSE LET info == infos[i]
             name == UniformKey(info.name)
             setter == getUniformSetter(info, info.name # name, i)
         IN  IF setter.thrown # "none"
             THEN [thrown |-> setter.thrown, failedAt |-> i,
                   uniforms |-> uniforms]
             ELSE CreateUniformSetters(infos, i + 1, (name :> setter) @@ uniforms)

NoUniforms == [k \in {} |-> 0]
Zeros(n) == [j \in 1..n |-> 0]

\* new Program(app, vertexShader, fragmentShader): this.uniforms is assigned
\* after the loop, so a throw leaves no Program and no mapping behind.  Each
\* `new Float32Array(n)` / `new Uint16Array(n)` a setter captured starts zeroed.
Construct ==
    /\ program.status = "new"
    /\ LET r == CreateUniformSetters(activeUniforms, 1, NoUniforms)
       IN  IF r.thrown # "none"
           THEN /\ program' = [status |-> "thrown", error |-> r.thrown,
                               failedAt |-> r.failedAt, uniforms |-> NoUniforms]
                /\ scratch' = NoUniforms
                /\ written' = NoUniforms
           ELSE /\ program' = [status |-> "constructed", error |-> "none",
                               failedAt |-> 0, uniforms |-> r.uniforms]
                /\ scratch' = [k \in {x \in DOMAIN r.uniforms :
                                        r.uniforms[x].kind = "typed"} |->
                                  Zeros(r.uniforms[k].typedArray.n)]
                /\ written' = [k \in DOMAIN r.uniforms |-> 0]
    /\ UNCHANGED <<activeUniforms, lastInv, lastCalls, invocations,
                   driverCalls>>
    /\ UNCHANGED loadVars

(***************************************************************************)
(* The setters.  A value passed to a setter is a number (scalar) or a flat *)
(* sequence of numbers; conv says whether it exposes toFloat32Array.       *)
(***************************************************************************)
Value(scalar, data, conv) == [scalar |-> scalar, data |-> data, conv |-> conv]

\* One call of the driver: gl[fn](loc, data) or gl[fn](loc, transpose, data).
DriverCall(fn, loc, transpose, data) ==
    [fn |-> fn, loc |-> loc, transpose |-> transpose, data |-> data]

\* val.toFloat32Array ? val.toFloat32Array() : val
Flat(val) == IF val.conv THEN Elements("Float32Array", val.data) ELSE val.data

\* typedArray.set(source): the leading Len(source) elements are overwritten,
\* the others keep what they held.
TypedArraySet(ctor, buf, source) ==
    [j \in 1..Len(buf) |->
        IF j <= Len(source) THEN Elements(ctor, source)[j] ELSE buf[j]]

\* One invocation of a setter on a value, with buf its scratch array: the
\* driver calls it makes, the scratch array afterwards, what it throws and how
\* many leading elements of the scratch array it wrote.
Invoke(setter, buf, val) ==
    IF setter.kind = "array"
    THEN \* val => glFunction(loc, new typedArray(val))
         [calls |-> <<DriverCall(setter.glFunction, setter.loc, "none",
                                 Elements(setter.typedArray.ctor, val.data))>>,
          buf |-> buf, thrown |-> "none", written |-> 0]
    ELSE IF setter.kind = "matrix"
    THEN \* val => glFunction(loc, false, val.toFloat32Array())
         IF val.conv
         THEN [calls |-> <<DriverCall(setter.glFunction, setter.loc, "false",
                                      Elements("Float32Array", val.data))>>,
               buf |-> buf, thrown |-> "none", written |-> 0]
         ELSE [calls |-> <<>>, buf |-> buf, thrown |-> "TypeError",
               written |-> 0]
    ELSE IF setter.kind = "typed"
    THEN \* typedArray.set(...); glFunction(loc, typedArray)
         IF Len(Flat(val)) > Len(buf)
         THEN [calls |-> <<>>, buf |-> buf, thrown |-> "RangeError",
               written |-> 0]
         ELSE LET b == TypedArraySet(setter.typedArray.ctor, buf, Flat(val))
              IN  [calls |-> <<DriverCall(setter.glFunction, setter.loc,
                                          "none", b)>>,
                   buf |-> b, thrown |-> "none", written |-> Len(Flat(val))]
    ELSE \* val => glFunction(loc, val)
         [calls |-> <<DriverCall(setter.glFunction, setter.loc, "none",
                                 val.data)>>,
          buf |-> buf, thrown |-> "none", written |-> 0]

\* The values a caller passes for the uniform: a number for a setter of the
\* primitive kind, otherwise a sequence of one element fewer than, exactly, or
\* one more than the n elements the uniform holds.
ScalarInputs == {-1, 0, 1, 70000}
Seeds == {-3, 69998}
Ramp(seed, len) == [j \in 1..len |-> seed + j]

Holds(info) ==
    Components(info.type) *
        (IF info.name # UniformKey(info.name) THEN info.size ELSE 1)

Inputs(setter, info) ==
    IF setter.kind = "primitive"
    THEN {Value(TRUE, <<x>>, FALSE) : x \in ScalarInputs}
    ELSE {Value(FALSE, Ramp(seed, len), conv) :
            seed \in Seeds,
            len \in {Holds(info) - 1, Holds(info), Holds(info) + 1},
            conv \in BOOLEAN}

Min(a, b) == IF a < b THEN a ELSE b

\* A name that is no key of this.uniforms, and the value passed with it.
UnknownUniform == <<"w">>
UnknownValue == Value(TRUE, <<0>>, FALSE)

\* The state a call of setUniform or setUniforms starts from: it has made no
\* driver call and thrown nothing yet.
Entry ==
    [scratch |-> scratch, written |-> written, lastInv |-> lastInv,
     lastCalls |-> lastCalls, invocations |-> invocations,
     driverCalls |-> <<>>, thrown |-> "none"]

\* this.uniforms[name](value), for a name that is in this.uniforms.
InvokeSetter(st, name, val) ==
    LET setter == program.uniforms[name]
        buf == IF name \in DOMAIN st.scratch THEN st.scratch[name] ELSE <<>>
        r == Invoke(setter, buf, val)
    IN  [scratch |-> IF name \in DOMAIN st.scratch
                     THEN [st.scratch EXCEPT ![name] = r.buf]
                     ELSE st.scratch,
         written |-> [st.written EXCEPT ![name] = r.written],
         lastInv |-> [name |-> name, val |-> val, thrown |-> r.thrown,
                      written |-> r.written,
                      prevWritten |-> st.written[name]],
         lastCalls |-> r.calls,
         invocations |-> Min(st.invocations + 1, 2),
         driverCalls |-> st.driverCalls \o r.calls,
         thrown |-> r.thrown]

\* The state the call leaves behind.
Leave(st) ==
    /\ scratch' = st.scratch
    /\ written' = st.written
    /\ lastInv' = st.lastInv
    /\ lastCalls' = st.lastCalls
    /\ invocations' = st.invocations
    /\ driverCalls' = st.driverCalls

\* program.setUniform(name, value):
\*   if (name in this.uniforms) this.uniforms[name](value)
setUniform ==
    /\ program.status = "constructed"
    /\ \E name \in DOMAIN program.uniforms \cup {UnknownUniform} :
         IF name \in DOMAIN program.uniforms
         THEN LET setter == program.uniforms[name]
                  info == activeUniforms[setter.loc]
              IN  \E val \in Inputs(setter, info) :
                     Leave(InvokeSetter(Entry, name, val))
         ELSE Leave(Entry)
    /\ UNCHANGED <<activeUniforms, program>>
    /\ UNCHANGED loadVars

\* The values a forms object holds for a key: for a uniform, a number or a
\* sequence that is one element short of, exactly, or one element beyond what
\* the uniform holds.
FormSeeds == {-3}

FormInputs(name) ==
    IF name \notin DOMAIN program.uniforms THEN {UnknownValue}
    ELSE LET setter == program.uniforms[name]
             info == activeUniforms[setter.loc]
         IN  IF setter.kind = "primitive"
             THEN {Value(TRUE, Ramp(seed, 1), FALSE) : seed \in FormSeeds}
             ELSE {Value(FALSE, Ramp(seed, len), FALSE) :
                     seed \in FormSeeds,
                     len \in {Holds(info) - 1, Holds(info), Holds(info) + 1}}

\* The forms objects over a set of names: Object.keys(forms) lists the keys,
\* each once, in the order they were inserted.
RECURSIVE Forms(_)
Forms(names) ==
    {<<>>} \cup
    UNION {{<<[name |-> n, val |-> v]>> \o f :
               v \in FormInputs(n), f \in Forms(names \ {n})} : n \in names}

\* The for loop of setUniforms from key i on: a key that is not in
\* this.uniforms is skipped, and a setter that throws ends the loop, so the
\* keys after it are never reached.
RECURSIVE SetUniformsLoop(_, _, _)
SetUniformsLoop(forms, i, st) ==
    IF i > Len(forms) \/ st.thrown # "none" THEN st
    ELSE SetUniformsLoop(forms, i + 1,
             IF forms[i].name \in DOMAIN program.uniforms
             THEN InvokeSetter(st, forms[i].name, forms[i].val)
             ELSE st)

\* program.setUniforms(forms):
\*   for (const name of Object.keys(forms))
\*     if (name in this.uniforms) this.uniforms[name](forms[name])
setUniforms ==
    /\ program.status = "constructed"
    /\ \E forms \in Forms(DOMAIN program.uniforms \cup {UnknownUniform}) :
          Leave(SetUniformsLoop(forms, 1, Entry))
    /\ UNCHANGED <<activeUniforms, program>>
    /\ UNCHANGED loadVars

(***************************************************************************)
(* Initial states.                                                         *)
(***************************************************************************)
\* What the driver reports: uniform i is named u<i>, u<i>[0] when it is declared
\* as an array, or u<i>[0].x when it is a member of a struct in an array; only
\* an array has a size above 1.
ReportedName(i, suffix) == <<"u", Digit(i)>> \o suffix

Shapes == {[suffix |-> <<>>, size |-> 1],
           [suffix |-> <<"[", "0", "]">>, size |-> 1],
           [suffix |-> <<"[", "0", "]">>, size |-> 2],
           [suffix |-> <<"[", "0", "]", ".", "x">>, size |-> 1]}

UniformInfos(i) ==
    {[name |-> ReportedName(i, sh.suffix), type |-> t, size |-> sh.size] :
        sh \in Shapes, t \in SupportedTypes \cup UnsupportedTypes}

NoInvocation ==
    [name |-> <<>>, val |-> Value(TRUE, <<>>, FALSE), thrown |-> "none",
     written |-> 0, prevWritten |-> 0]

NewProgram ==
    [status |-> "new", error |-> "none", failedAt |-> 0, uniforms |-> NoUniforms]

LoadIdle ==
    /\ fs = NoUniforms
    /\ exts = {}
    /\ rootSource = <<>>
    /\ rootBase = <<>>
    /\ stack = <<>>
    /\ ret = NoRet
    /\ fetched = <<>>
    /\ failedFetch = {}

ProgramIdle ==
    /\ activeUniforms = <<>>
    /\ program = NewProgram
    /\ scratch = NoUniforms
    /\ lastInv = NoInvocation
    /\ lastCalls = <<>>
    /\ invocations = 0
    /\ written = NoUniforms
    /\ driverCalls = <<>>

\* The shaders declare one more uniform, which the driver will report as the
\* next active uniform of the linked program.
declareUniform ==
    /\ program.status = "new"
    /\ Len(activeUniforms) < MaxUniforms
    /\ \E info \in UniformInfos(Len(activeUniforms) + 1) :
          activeUniforms' = Append(activeUniforms, info)
    /\ UNCHANGED <<program, scratch, lastInv, lastCalls, invocations, written,
                   driverCalls>>
    /\ UNCHANGED loadVars

\* The Program constructor over any report of up to MaxUniforms uniforms.
Init == ProgramIdle /\ LoadIdle
Next == declareUniform \/ Construct
Spec == Init /\ [][Next]_vars

\* The Programs with two uniforms: the first has a setter of each of the four
\* kinds (primitive, typed, matrix, array), the second is a scalar or an int
\* vector that is not an array.
FirstUniforms ==
    {info \in UniformInfos(1) :
        \/ /\ info.name = ReportedName(1, <<>>)
           /\ info.type \in {"FLOAT", "FLOAT_VEC2", "FLOAT_MAT2"}
        \/ info.size > 1 /\ info.type = "INT"}

SecondUniforms ==
    {info \in UniformInfos(2) :
        info.name = ReportedName(2, <<>>)
            /\ info.type \in {"FLOAT", "INT_VEC2"}}

\* A Program with one active uniform, or with a second one besides it, and the
\* calls of setUniform and setUniforms on it.
SetterInit ==
    /\ activeUniforms \in
          {<<info>> : info \in UniformInfos(1)} \cup
          {<<first, second>> : first \in FirstUniforms,
                               second \in SecondUniforms}
    /\ program = NewProgram
    /\ scratch = NoUniforms
    /\ lastInv = NoInvocation
    /\ lastCalls = <<>>
    /\ invocations = 0
    /\ written = NoUniforms
    /\ driverCalls = <<>>
    /\ LoadIdle
SetterNext == Construct \/ setUniform \/ setUniforms
SetterSpec == SetterInit /\ [][SetterNext]_vars

(***************************************************************************)
(* One recursiveLoad call chain, over the files the fetcher can serve.     *)
(***************************************************************************)
MainUrl == <<".", "main.glsl">>
AUrl == <<".", "a.glsl">>
BUrl == <<".", "lib", "b.glsl">>
CUrl == <<".", "lib", "c.glsl">>
Urls == {MainUrl, AUrl, BUrl, CUrl}

Plain == <<Txt("void main() {}")>>
IncludesA == <<Inc(<<"a.glsl">>)>>
IncludesMain == <<Txt("// a"), Inc(<<"main.glsl">>)>>
IncludesLibB == <<Txt("// x"), Inc(<<"lib", "b.glsl">>), Ext("FOO", TRUE)>>
IncludesC == <<Inc(<<"c.glsl">>), Txt("// b")>>
IncludesB == <<Inc(<<"b.glsl">>)>>
UsesMacro == <<Txt("#if"), Ext("FOO", TRUE), Txt("#elif !"), Ext("FOO", FALSE)>>
IncludesTwo == <<Inc(<<"lib", "b.glsl">>), Inc(<<"a.glsl">>), Ext("FOO", TRUE)>>

\* The texts a file at the url may hold.
FileTexts(url) ==
    IF url = MainUrl THEN {IncludesA}
    ELSE IF url = AUrl THEN {Plain, IncludesA, IncludesMain, IncludesLibB}
    ELSE IF url = BUrl THEN {Plain, IncludesC}
    ELSE {Plain, IncludesB}

FileSystems ==
    UNION {{f \in [S -> UNION {FileTexts(u) : u \in Urls}] :
               \A u \in S : f[u] \in FileTexts(u)} : S \in SUBSET Urls}

RootSources == {Plain, IncludesA, IncludesLibB, UsesMacro, IncludesTwo}
RootBases == {<<".", "">>, MainUrl}

LoadInit ==
    /\ fs \in FileSystems
    /\ exts \in {{}, {"FOO"}}
    /\ rootSource \in RootSources
    /\ rootBase \in RootBases
    /\ stack = <<Frame(rootBase, TextValue(rootSource), {})>>
    /\ ret = NoRet
    /\ fetched = <<>>
    /\ failedFetch = {}
    /\ ProgramIdle

LoadNext ==
    \/ recursiveLoadReturn
    \/ recursiveLoadFetch
    \/ recursiveLoadAwait

LoadSpec == LoadInit /\ [][LoadNext]_vars

(***************************************************************************)
(* What the claims speak of, stated apart from the code.                   *)
(***************************************************************************)
\* The urls the directives of a text at `base` name, each relative to the
\* directory of the including file.
Included(base, text) ==
    {getpath(base) \o text[i].a : i \in {j \in 1..Len(text) : text[j].k = "inc"}}

\* The urls reachable from a set of urls through n rounds of inclusion.
RECURSIVE ReachableIn(_, _)
ReachableIn(S, n) ==
    IF n = 0 THEN S
    ELSE ReachableIn(
             S \cup UNION {Included(u, fs[u]) : u \in S \cap DOMAIN fs}, n - 1)

Rounds == Cardinality(DOMAIN fs) + 1
RootIncludes == Included(rootBase, rootSource)
Reachable == ReachableIn(RootIncludes, Rounds)

\* Some file the start includes, directly or transitively, includes itself,
\* directly or transitively.
OnCycle ==
    \E u \in Reachable \cap DOMAIN fs :
        u \in ReachableIn(Included(u, fs[u]), Rounds)

\* Every file of the include graph exists and the graph holds a cycle.
CyclicStart == Reachable \subseteq DOMAIN fs /\ OnCycle

\* Every file of the include graph exists and the graph is acyclic.
Resolvable == Reachable \subseteq DOMAIN fs /\ ~OnCycle

\* The text with every directive replaced, in place and recursively, by the
\* text of the file it names.
RECURSIVE Expanded(_, _, _)
Expanded(text, base, fuel) ==
    IF text = <<>> THEN <<>>
    ELSE LET h == Head(text)
             url == getpath(base) \o h.a
         IN  (IF h.k = "inc" /\ fuel > 0 /\ url \in DOMAIN fs
              THEN Expanded(fs[url], url, fuel - 1)
              ELSE <<h>>)
             \o Expanded(Tail(text), base, fuel)

ExpandedRoot == Expanded(rootSource, rootBase, Rounds)

\* Every HAS_EXTENSION invocation of a text replaced by 1 or 0.
MacrosReplaced(s) ==
    [i \in 1..Len(s) |->
        IF s[i].k = "ext"
        THEN Txt(IF s[i].a[1] \in exts THEN " 1 " ELSE " 0 ")
        ELSE s[i]]

\* C1: started on files whose directives form a cycle, recursiveLoad never
\* requests a path that is being resolved on the active inclusion chain, and
\* when it ends it has failed with a recursive-include error.
C1_CycleIsRejected ==
    CyclicStart =>
        /\ \A i, j \in 1..Len(stack) :
              (i < j /\ stack[i].pc = "await" /\ stack[j].pc = "await")
                  => stack[i].url # stack[j].url
        /\ LoadDone =>
              ret.state = "rejected" /\ ret.err.kind = "RecursiveInclude"

\* C6: when the include graph is acyclic and every fetch succeeds, recursiveLoad
\* resolves to the source text with every directive replaced by the resolved
\* text of the file it names; a source without directive resolves to itself.
C6_ResolvesToExpandedText ==
    (Resolvable /\ LoadDone) =>
        /\ ret.state = "resolved"
        /\ ret.value.t = "text"
        /\ RewriteExtensions(ret.value.s, exts)
             = RewriteExtensions(ExpandedRoot, exts)

\* C7: the source recursiveLoad emits has every HAS_EXTENSION(name) replaced by
\* 1 or 0 as gl.getExtension(name) reports, and none is left in it.
C7_MacrosAreRewritten ==
    (LoadDone /\ ret.state = "resolved"
        /\ \E i \in 1..Len(ExpandedRoot) : ExpandedRoot[i].k = "ext") =>
        /\ ret.value.t = "text"
        /\ \A i \in 1..Len(ret.value.s) : ret.value.s[i].k # "ext"
        /\ Resolvable => ret.value.s = MacrosReplaced(ExpandedRoot)

ExpectedCall(type) ==
    CASE type = "FLOAT" -> "uniform1f"
      [] type \in {"INT", "BOOL", "SAMPLER_2D", "SAMPLER_CUBE"} -> "uniform1i"
      [] type = "FLOAT_VEC2" -> "uniform2fv"
      [] type = "FLOAT_VEC3" -> "uniform3fv"
      [] type = "FLOAT_VEC4" -> "uniform4fv"
      [] type \in {"INT_VEC2", "BOOL_VEC2"} -> "uniform2iv"
      [] type \in {"INT_VEC3", "BOOL_VEC3"} -> "uniform3iv"
      [] type \in {"INT_VEC4", "BOOL_VEC4"} -> "uniform4iv"
      [] type = "FLOAT_MAT2" -> "uniformMatrix2fv"
      [] type = "FLOAT_MAT3" -> "uniformMatrix3fv"
      [] type = "FLOAT_MAT4" -> "uniformMatrix4fv"
      [] OTHER -> "none"

\* The driver call of an array uniform, by the type tag of its elements.
ExpectedArrayCall(type) ==
    CASE type = "FLOAT" -> "uniform1fv"
      [] type \in {"INT", "BOOL", "SAMPLER_2D", "SAMPLER_CUBE"} -> "uniform1iv"
      [] OTHER -> ExpectedCall(type)

\* The reported name ends in an index suffix such as [0].
HasIndexSuffix(name) ==
    /\ Len(name) > 3
    /\ name[Len(name)] = "]"
    /\ name[Len(name) - 2] = "["

\* The reported name with its trailing index suffix, if any, taken off: the
\* part before the last opening bracket.
BaseName(name) ==
    IF Len(name) > 0 /\ name[Len(name)] = "]"
          /\ \E p \in 1..Len(name) : name[p] = "["
    THEN LET p == CHOOSE q \in 1..Len(name) :
                     /\ name[q] = "["
                     /\ \A r \in (q + 1)..Len(name) : name[r] # "["
         IN  SubSeq(name, 1, p - 1)
    ELSE name

ScalarAndVectorTypes == ScalarFloat \cup ScalarInt \cup FloatVec \cup IntVec

\* C3: a uniform reported with a trailing [0] and a size above 1, of any scalar
\* or vector kind, does not make the construction fail and gets the setter of
\* the array variant; one reported without the suffix gets the plain variant.
C3_ArraysOfAnyKindBind ==
    program.status # "new" =>
        \A i \in 1..Len(activeUniforms) :
            LET info == activeUniforms[i]
                key == BaseName(info.name)
            IN  info.type \in ScalarAndVectorTypes =>
                  /\ (HasIndexSuffix(info.name) /\ info.size > 1)
                        => program.failedAt # i
                  /\ (program.status = "constructed"
                        /\ key \in DOMAIN program.uniforms
                        /\ HasIndexSuffix(info.name) /\ info.size > 1) =>
                        program.uniforms[key].glFunction =
                            ExpectedArrayCall(info.type)
                  /\ (program.status = "constructed"
                        /\ key \in DOMAIN program.uniforms
                        /\ ~HasIndexSuffix(info.name)) =>
                        program.uniforms[key].glFunction =
                            ExpectedCall(info.type)

\* C5: when the driver reports a uniform of an unsupported type tag, array or
\* not, the constructor throws the unknown-uniform-type error and leaves no
\* Program with a uniforms mapping.
C5_UnknownTypeAborts ==
    (program.status # "new"
        /\ \E i \in 1..Len(activeUniforms) :
              activeUniforms[i].type \in UnsupportedTypes) =>
        /\ program.status = "thrown"
        /\ program.error = "UnknownGLSLType"
        /\ program.uniforms = NoUniforms

\* C10: after construction the keys of the uniforms mapping are exactly the
\* reported names with the trailing index suffix taken off, one key for each
\* active uniform.
C10_KeysAreBaseNames ==
    program.status = "constructed" =>
        /\ DOMAIN program.uniforms =
              {BaseName(activeUniforms[i].name) : i \in 1..Len(activeUniforms)}
        /\ Cardinality(DOMAIN program.uniforms) = Len(activeUniforms)
        /\ \A k \in DOMAIN program.uniforms :
              Cardinality({i \in 1..Len(activeUniforms) :
                              BaseName(activeUniforms[i].name) = k}) = 1

\* C10 witness: a constructed Program whose report holds an array uniform and a
\* uniform that is not an array.
C10_Witness ==
    /\ program.status = "constructed"
    /\ \E i, j \in 1..Len(activeUniforms) :
          /\ HasIndexSuffix(activeUniforms[i].name)
          /\ ~HasIndexSuffix(activeUniforms[j].name)
          /\ DOMAIN program.uniforms =
                {BaseName(activeUniforms[i].name), activeUniforms[j].name}

\* The uniform the last invocation of a setter was for.
InvokedInfo == activeUniforms[program.uniforms[lastInv.name].loc]
Invoked == program.status = "constructed" /\ lastInv.name \in DOMAIN program.uniforms

\* The value suits the type: a number for a scalar, a sequence of as many
\* elements as the type has components otherwise.
Fits(val, type) ==
    IF type \in ScalarFloat \cup ScalarInt THEN val.scalar
    ELSE ~val.scalar /\ Len(val.data) = Components(type)

\* C2: the setter of a uniform that is not an array makes exactly one driver
\* call per invocation, the one of its type, at the uniform's location; for a
\* vector type the buffer holds the n components of the input in order.
C2_OneCallOfTheType ==
    (Invoked /\ ~HasIndexSuffix(InvokedInfo.name)
        /\ InvokedInfo.type \in SupportedTypes
        /\ Fits(lastInv.val, InvokedInfo.type)
        /\ (InvokedInfo.type \in FloatMat => lastInv.val.conv)) =>
        /\ Len(lastCalls) = 1
        /\ lastCalls[1].fn = ExpectedCall(InvokedInfo.type)
        /\ activeUniforms[lastCalls[1].loc].name = InvokedInfo.name
        /\ InvokedInfo.type \in FloatVec \cup IntVec =>
              lastCalls[1].data = lastInv.val.data

\* C4: on the second of two successive invocations of a vector or matrix
\* setter, no component of the buffer handed to the driver is one that the
\* first invocation wrote and the second did not.
C4_NoLeakBetweenCalls ==
    (Invoked /\ invocations >= 2
        /\ InvokedInfo.type \in FloatVec \cup IntVec \cup FloatMat
        /\ Len(lastCalls) = 1) =>
        \A j \in 1..Len(lastCalls[1].data) :
            j > Len(lastInv.val.data) => j > lastInv.prevWritten

\* C9: a vector or matrix setter takes a value that exposes toFloat32Array and
\* a value that is already flat alike: it does not fail, uploads the elements
\* of the value, and a matrix setter passes false as the transpose flag.
C9_FlatAndConvertibleInputs ==
    (Invoked /\ ~HasIndexSuffix(InvokedInfo.name)
        /\ InvokedInfo.type \in FloatVec \cup IntVec \cup FloatMat
        /\ Fits(lastInv.val, InvokedInfo.type)) =>
        /\ lastInv.thrown = "none"
        /\ Len(lastCalls) = 1
        /\ Len(lastCalls[1].data) = Len(lastInv.val.data)
        /\ InvokedInfo.type \in FloatMat => lastCalls[1].transpose = "false"

\* C11: every directive of a file, the second and later ones as well as the
\* first, is requested from the directory of the file that holds it: the url an
\* awaiting call requested is one its own file names relative to its own
\* directory, no url is requested that the include graph does not hold, and
\* when every file of an acyclic include graph can be fetched, the load has
\* requested each directive of the source from that url by the time it ends.
C11_IncludesRelativeToIncluder ==
    /\ \A i \in 1..Len(stack) :
          stack[i].pc = "await" =>
              stack[i].url \in
                  (IF i = 1 THEN RootIncludes
                   ELSE Included(stack[i - 1].url, fs[stack[i - 1].url]))
    /\ \A k \in 1..Len(fetched) : fetched[k] \in Reachable
    /\ (Resolvable /\ LoadDone) =>
          \A u \in RootIncludes : \E k \in 1..Len(fetched) : fetched[k] = u

\* C12: an int or bool vector setter, and the setter of an array of int
\* scalars, delivers to the driver the integer components the caller passed,
\* negative ones and ones above 65535 included.
C12_IntegerComponentsUnchanged ==
    (Invoked /\ Len(lastCalls) = 1
        /\ ~lastInv.val.scalar
        /\ Len(lastInv.val.data) = Holds(InvokedInfo)
        /\ \/ InvokedInfo.type \in IntVec /\ ~HasIndexSuffix(InvokedInfo.name)
           \/ /\ InvokedInfo.type \in ScalarInt
              /\ HasIndexSuffix(InvokedInfo.name) /\ InvokedInfo.size > 1) =>
        lastCalls[1].data = lastInv.val.data

=============================================================================
